---- MODULE Spec2Model ----
(***************************************************************************)
(* A model of log-pulse/scripts/pulse.py: the incremental log reader and   *)
(* rolling pulse state (pulse_once, _read_delta), and the supervising run  *)
(* loop with its process-group tracker (cmd_run, _ProcTracker,             *)
(* _emit_exit).                                                            *)
(*                                                                         *)
(* Time is counted in ticks of 0.05 s, so that PROC_POLL_INTERVAL_S (0.1s) *)
(* is two ticks and sub-interval wake-ups of the run loop are visible.     *)
(* Log bytes are drawn from a small alphabet: "x" an ordinary byte, "E" a  *)
(* token matched by an error pattern, "W" a token matched by a warning     *)
(* pattern, and the two terminators CR and LF.                             *)
(***************************************************************************)
EXTENDS Integers, Sequences, FiniteSets, TLC

VARIABLES
    clock,      \* wall clock (time.time()), in ticks
    log,        \* bytes of the file at the log path
    logExists,  \* whether the log path exists
    stFile,     \* the persisted state file  <log>.pulse.json
    tmpFile,    \* its sibling  <log>.pulse.json.tmp
    tk,         \* frame of the pulse_once call in progress
    ticks,      \* number of pulse_once calls started
    sumNew,     \* history: sum of new_lines returned by every delta read
    appendOnly, \* history: the log has only ever been appended to
    dirtyCur,   \* history: log modified since the current call began
    written,    \* history: bytes appended to the log so far
    dirtyPrev,  \* history: log modified during the previous call
    last,       \* history: what the previous completed call reported
    procs,      \* the process table: pid -> "none", "running", "zombie", "gone"
    outcome,    \* how the primary child ended (Popen's returncode), once it has
    procRc,     \* proc.returncode, the status Popen has collected
    psOk,       \* the ps invocation forms that work in this environment
    psArgs,     \* _PS_PGID_ARGS
    run,        \* cmd_run: its arguments, its locals and its _ProcTracker
    out,        \* lines printed on stdout by cmd_run
    ret,        \* value returned by cmd_run
    outlived,   \* history: descendants running when the child exited
    reader,     \* another process loading the state file (_load_json)
    snapshots   \* history: the initial state file and every state saved

pulseVars == <<clock, log, logExists, stFile, tmpFile, tk, ticks,
               sumNew, appendOnly, dirtyCur, dirtyPrev, last, written>>

runVars == <<procs, outcome, procRc, psOk, psArgs, run, out, ret, outlived>>

saveVars == <<reader, snapshots>>

vars == <<pulseVars, runVars, saveVars>>

----------------------------------------------------------------------------
(* Bounds of the model *)

MaxBytes == 2       \* bytes written to the log per behaviour
MaxTicks == 3       \* pulse_once calls per behaviour
MaxSeconds == 3     \* how far the clock runs in the pulse specification
MaxWindow == 1      \* largest --window, in seconds
MaxPid == 2         \* process ids 1..MaxPid
MaxRunTicks == 2    \* how far the clock runs in the run specification
MaxItems == 1       \* foreign elements in the samples of a state file
MaxLine == 4        \* bytes of a log that is read in one piece
MaxReads == 2       \* loads of the state file by the other process

(* Program constants *)

ProcPollTicks == 2          \* PROC_POLL_INTERVAL_S = 0.1 s
ChunkSize == 1048576        \* f.read(1024 * 1024)
LastLineMax == 120          \* _short(last_line, 120)
SleepQuantum == 2           \* time.sleep(min(sleep_for, 0.1))
SignalBase == 128           \* normalized = 128 + sig

TicksPerSecond == ProcPollTicks * 10

CR == "\r"
LF == "\n"
Chars == {"x", "E", "W", CR, LF}
Windows == 1..MaxWindow

Min(a, b) == IF a <= b THEN a ELSE b
Max(a, b) == IF a >= b THEN a ELSE b

\* an Optional: Python's None, or a value
None == [set |-> FALSE, val |-> 0]
Some(v) == [set |-> TRUE, val |-> v]

BoundedSeq(S, n) == UNION {[1..k -> S] : k \in 0..n}

----------------------------------------------------------------------------
(* _read_delta: text handling of one chunk *)

RECURSIVE ReplaceCRLF(_)
\* text.replace("\r\n", "\n")
ReplaceCRLF(s) ==
    IF s = <<>> THEN <<>>
    ELSE IF Len(s) >= 2 /\ s[1] = CR /\ s[2] = LF
         THEN <<LF>> \o ReplaceCRLF(SubSeq(s, 3, Len(s)))
         ELSE <<s[1]>> \o ReplaceCRLF(Tail(s))

\* .replace("\r", "\n")
ReplaceCR(s) == [i \in 1..Len(s) |-> IF s[i] = CR THEN LF ELSE s[i]]

NormalizeNewlines(s) == ReplaceCR(ReplaceCRLF(s))

RECURSIVE SplitLF(_)
\* text.split("\n"): always at least one part
SplitLF(s) ==
    IF \A i \in 1..Len(s) : s[i] # LF THEN <<s>>
    ELSE LET k == CHOOSE i \in 1..Len(s) :
                      s[i] = LF /\ \A j \in 1..(i - 1) : s[j] # LF
         IN  <<SubSeq(s, 1, k - 1)>> \o SplitLF(SubSeq(s, k + 1, Len(s)))

\* _match_any(err_pats, line) / _match_any(warn_pats, line)
MatchErr(line) == \E i \in 1..Len(line) : line[i] = "E"
MatchWarn(line) == \E i \in 1..Len(line) : line[i] = "W"

\* _short(s, n); the alphabet has no blanks, so strip() removes nothing
Short(s, n) ==
    IF n <= 0 THEN <<>>
    ELSE IF Len(s) <= n THEN s
    ELSE IF n <= 3 THEN SubSeq(s, 1, n)
    ELSE SubSeq(s, 1, n - 3) \o <<".", ".", ".">>

EmptyAcc == [new_lines |-> 0, err_lines |-> 0, warn_lines |-> 0,
             last_line |-> <<>>, carry |-> <<>>]

RECURSIVE CountLinesExclusive(_, _)
\* faulty variant: a line is an error or else a warning
CountLinesExclusive(acc, parts) ==
    IF parts = <<>> THEN acc
    ELSE LET line == Head(parts)
         IN  CountLinesExclusive(
                 [acc EXCEPT
                    !.new_lines = @ + 1,
                    !.err_lines = IF line # <<>> /\ MatchErr(line) THEN @ + 1 ELSE @,
                    !.warn_lines = IF line # <<>> /\ ~MatchErr(line) /\ MatchWarn(line)
                                   THEN @ + 1 ELSE @,
                    !.last_line = IF line # <<>> THEN line ELSE @],
                 Tail(parts))

RECURSIVE CountLines(_, _)
\* the  for line in parts  loop
CountLines(acc, parts) ==
    IF parts = <<>> THEN acc
    ELSE LET line == Head(parts)
         IN  CountLines(
                 [acc EXCEPT
                    !.new_lines = @ + 1,
                    !.err_lines = IF line # <<>> /\ MatchErr(line) THEN @ + 1 ELSE @,
                    !.warn_lines = IF line # <<>> /\ MatchWarn(line) THEN @ + 1 ELSE @,
                    !.last_line = IF line # <<>> THEN line ELSE @],
                 Tail(parts))

\* the text joined to the carried partial line before it is split
JoinCarry(carry, text) == carry \o text

\* body of the  while True  loop for one non-empty chunk
ProcessChunk(acc, chunk) ==
    LET text == JoinCarry(acc.carry, NormalizeNewlines(chunk))
        parts == SplitLF(text)
        n == Len(parts)
    IN  CountLines([acc EXCEPT !.carry = parts[n]], SubSeq(parts, 1, n - 1))

\* the values returned after the loop
FinishDelta(acc, end_pos) ==
    [new_lines |-> acc.new_lines, err_lines |-> acc.err_lines,
     warn_lines |-> acc.warn_lines,
     last_line |-> Short(IF acc.carry # <<>> THEN acc.carry ELSE acc.last_line,
                         LastLineMax),
     end_pos |-> end_pos]

ZeroDelta(end_pos) ==
    [new_lines |-> 0, err_lines |-> 0, warn_lines |-> 0,
     last_line |-> <<>>, end_pos |-> end_pos]

\* faulty variant: no reset on truncation
EffectiveStartNoReset(start_pos, end_pos) == start_pos

\* faulty variant: a file of the stored size is taken for a truncated one
EffectiveStartOffByOne(start_pos, end_pos) ==
    IF end_pos <= start_pos THEN 0 ELSE start_pos

\* if end_pos < start_pos: start_pos = 0
EffectiveStart(start_pos, end_pos) == IF end_pos < start_pos THEN 0 ELSE start_pos

\* a whole delta read of bytes that do not change while they are read
ReadWhole(bytes, start_pos) ==
    LET end_pos == Len(bytes)
        st == EffectiveStart(start_pos, end_pos)
    IN  IF end_pos = st THEN ZeroDelta(end_pos)
        ELSE FinishDelta(ProcessChunk(EmptyAcc, SubSeq(bytes, st + 1, end_pos)),
                         end_pos)

----------------------------------------------------------------------------
(* Persisted state *)

\* _default_state()
DefaultState(now) ==
    [created_at |-> now, pos |-> 0, total_lines |-> 0,
     samples |-> <<>>, last_line |-> <<>>]

\* The JSON value of a field of a state file this program did not write: an
\* integer, a string int() rejects (such as "abc"), or the field is missing.
JInt(n) == [ty |-> "int", n |-> n]

JStr == [ty |-> "str", n |-> 0]

JMissing == [ty |-> "missing", n |-> 0]

\* int(v): the integer, or None where Python raises ValueError or TypeError
IntOf(v) == IF v.ty = "int" THEN Some(v.n) ELSE None

\* The elements of "samples" this program did not write: something that is
\* not an object, an object whose "t" float() rejects, and objects with
\* "t" = ForeignT whose "lines" int() rejects or is missing.
ItemKinds == {"notdict", "bad_t", "bad_lines", "no_lines"}

ForeignT == 0

\* the fields of a stored object that are read through int() and float():
\* pos, total_lines, whether samples is a list, and its foreign elements
NoRaw == [pos |-> JMissing, total_lines |-> JMissing, list |-> TRUE,
          items |-> <<>>]

\* The state file: absent, not JSON ("notjson"), JSON that is not an object
\* ("nonobject"), an object this program wrote ("json") or an object with
\* fields and samples it did not write ("foreign").
AbsentFile == [kind |-> "absent", data |-> DefaultState(0), raw |-> NoRaw]

JsonFile(state) == [kind |-> "json", data |-> state, raw |-> NoRaw]

\* json.dumps(state): the samples that were loaded and kept are written back
StoredFile(state, items) ==
    IF items = <<>> THEN JsonFile(state)
    ELSE [kind |-> "foreign", data |-> state,
          raw |-> [pos |-> JInt(state.pos),
                   total_lines |-> JInt(state.total_lines),
                   list |-> TRUE, items |-> items]]

\* _load_json(path): whether json.loads returned an object
LoadsObject(file) == file.kind \in {"json", "foreign"}

\* _load_state(state_path)
LoadState(file, now) ==
    IF LoadsObject(file) THEN file.data ELSE DefaultState(now)

\* _load_state(state_path), the fields read through int() and float():
\* setdefault() fills what is missing, samples that is not a list becomes []
LoadRaw(file, now) ==
    IF file.kind = "foreign"
    THEN [pos |-> IF file.raw.pos.ty = "missing" THEN JInt(0) ELSE file.raw.pos,
          total_lines |-> IF file.raw.total_lines.ty = "missing" THEN JInt(0)
                          ELSE file.raw.total_lines,
          list |-> TRUE,
          items |-> IF file.raw.list THEN file.raw.items ELSE <<>>]
    ELSE [pos |-> JInt(LoadState(file, now).pos),
          total_lines |-> JInt(LoadState(file, now).total_lines),
          list |-> TRUE, items |-> <<>>]

\* faulty variant: the grace margin of the pruning is two seconds
PruneCutoffTwoSeconds(now, window) ==
    now - window * TicksPerSecond - 2 * TicksPerSecond

\* cutoff = now - float(window_s) - 1.0
PruneCutoff(now, window) == now - window * TicksPerSecond - TicksPerSecond

\* faulty variant: the report uses the looser cutoff of the pruning
WindowCutoffLoose(now, window) == now - window * TicksPerSecond - TicksPerSecond

\* window_cutoff = now - float(window_s)
WindowCutoff(now, window) == now - window * TicksPerSecond

\* _prune_samples(samples, cutoff)
PruneSamples(samples, cutoff) == SelectSeq(samples, LAMBDA s : s.t >= cutoff)

\* _prune_samples on the foreign elements: s.get or float() raising drops the
\* element (except Exception: pass)
PruneItems(items, cutoff) ==
    SelectSeq(items, LAMBDA k : k \in {"bad_lines", "no_lines"} /\ ForeignT >= cutoff)

\* the  for s in samples  loop on the foreign elements: int(s.get("lines", 0))
\* raises on an element inside the window whose "lines" is not a number
WindowLoopRaises(items, cutoff) ==
    \E i \in DOMAIN items : ~(ForeignT < cutoff) /\ items[i] = "bad_lines"

RECURSIVE SumField(_, _)
SumField(samples, f) ==
    IF samples = <<>> THEN 0
    ELSE Head(samples)[f] + SumField(Tail(samples), f)

\* the  for s in samples  loop of pulse_once
WindowTotals(samples, cutoff) ==
    LET inw == SelectSeq(samples, LAMBDA s : ~(s.t < cutoff))
    IN  [lines |-> SumField(inw, "lines"), err |-> SumField(inw, "err"),
         warn |-> SumField(inw, "warn")]

\* faulty variant: the total is recomputed from the samples still stored
NewTotalFromSamples(state, delta) ==
    SumField(state.samples, "lines") + delta.new_lines

\* state["total_lines"] = int(state.get("total_lines", 0)) + int(new_lines)
NewTotal(state, delta) == state.total_lines + delta.new_lines

\* state["pos"] = int(end_pos)
NewPos(state, delta) == delta.end_pos

\* pulse_once, from the delta to the state that is saved
RecordTick(state, delta, now, window) ==
    LET sample == [t |-> now, lines |-> delta.new_lines,
                   err |-> delta.err_lines, warn |-> delta.warn_lines]
    IN  [state EXCEPT
           !.pos = NewPos(state, delta),
           !.total_lines = NewTotal(state, delta),
           !.last_line = IF delta.last_line # <<>> THEN delta.last_line ELSE @,
           !.samples = PruneSamples(Append(@, sample), PruneCutoff(now, window))]

----------------------------------------------------------------------------
(* The frame of one pulse_once call *)

NoReport == [w_lines |-> 0, w_err |-> 0, w_warn |-> 0, total |-> 0,
             last_line |-> <<>>, missing |-> FALSE]

TkIdle ==
    [pc |-> "idle", caller |-> "none", now |-> 0, window |-> 0,
     loaded |-> DefaultState(0), state |-> DefaultState(0),
     start |-> 0, stat_size |-> 0, end_pos |-> 0, fpos |-> 0,
     detached |-> FALSE, snap |-> <<>>, acc |-> EmptyAcc,
     delta |-> ZeroDelta(0), report |-> NoReport,
     file_kind |-> "absent", raw |-> NoRaw, items |-> <<>>]

NoLast == [valid |-> FALSE, report |-> NoReport, now |-> 0, window |-> 0, pos |-> 0]

\* pulse_once, lines 350-357, and _read_delta, lines 295-304: now, the loaded
\* state, the size check and the two early returns
PulseBegin(caller, window) ==
    /\ tk.pc \in {"idle", "raised"}
    /\ ticks' = ticks + 1
    /\ LET raw == LoadRaw(stFile, clock)
           pos == IntOf(raw.pos)
           state == [LoadState(stFile, clock) EXCEPT !.pos = pos.val]
           start_pos == state.pos
           end_pos == Len(log)
           st == EffectiveStart(start_pos, end_pos)
           frame == [TkIdle EXCEPT !.caller = caller, !.now = clock,
                                   !.window = window, !.loaded = state,
                                   !.file_kind = stFile.kind, !.raw = raw]
       IN  tk' = IF ~pos.set
                 THEN [frame EXCEPT !.pc = "raised"]
                 ELSE IF ~logExists
                 THEN [frame EXCEPT !.pc = "record", !.start = start_pos,
                                    !.stat_size = -1, !.end_pos = start_pos,
                                    !.delta = ZeroDelta(start_pos)]
                 ELSE IF end_pos = st
                 THEN [frame EXCEPT !.pc = "record", !.start = st,
                                    !.stat_size = end_pos, !.end_pos = end_pos,
                                    !.delta = ZeroDelta(end_pos)]
                 ELSE [frame EXCEPT !.pc = "open", !.start = st,
                                    !.stat_size = end_pos, !.end_pos = end_pos]
    /\ dirtyPrev' = dirtyCur
    /\ dirtyCur' = FALSE
    /\ last' = IF tk.pc = "raised" THEN NoLast ELSE last
    /\ UNCHANGED <<clock, log, logExists, stFile, tmpFile, sumNew, appendOnly, written>>

\* _read_delta, lines 310-311: open() is outside the try of line 295
PulseOpen ==
    /\ tk.pc = "open"
    /\ tk' = IF logExists /\ tk.start >= 0
             THEN [tk EXCEPT !.pc = "read", !.fpos = tk.start]
             ELSE [tk EXCEPT !.pc = "raised"]
    /\ UNCHANGED <<clock, log, logExists, stFile, tmpFile, ticks, sumNew,
                   appendOnly, dirtyCur, dirtyPrev, last, written>>
    /\ UNCHANGED <<runVars, saveVars>>

\* the bytes the open handle reads: an unlinked file keeps its bytes
HandleBytes == IF tk.detached THEN tk.snap ELSE log

\* _read_delta, lines 312-335: one f.read() and what follows it
PulseReadChunk ==
    /\ tk.pc = "read"
    /\ LET bytes == HandleBytes
           chunk == SubSeq(bytes, tk.fpos + 1, Min(Len(bytes), tk.fpos + ChunkSize))
       IN  IF chunk = <<>>
           THEN /\ tk' = [tk EXCEPT !.pc = "record",
                                    !.delta = FinishDelta(tk.acc, tk.end_pos)]
                /\ sumNew' = sumNew + tk.acc.new_lines
           ELSE /\ tk' = [tk EXCEPT !.acc = ProcessChunk(tk.acc, chunk),
                                    !.fpos = tk.fpos + Len(chunk)]
                /\ UNCHANGED sumNew
    /\ UNCHANGED <<clock, log, logExists, stFile, tmpFile, ticks, appendOnly,
                   dirtyCur, dirtyPrev, last, written>>
    /\ UNCHANGED <<runVars, saveVars>>

\* pulse_once, lines 359-379
PulseRecord ==
    /\ tk.pc = "record"
    /\ LET total == IntOf(tk.raw.total_lines)
           loaded == [tk.loaded EXCEPT !.total_lines = total.val]
           state == RecordTick(loaded, tk.delta, tk.now, tk.window)
           items == PruneItems(tk.raw.items, PruneCutoff(tk.now, tk.window))
           w == WindowTotals(state.samples, WindowCutoff(tk.now, tk.window))
       IN  tk' = IF ~total.set
                    \/ WindowLoopRaises(items, WindowCutoff(tk.now, tk.window))
                 THEN [tk EXCEPT !.pc = "raised"]
                 ELSE [tk EXCEPT !.pc = "write_tmp", !.state = state,
                            !.items = items,
                            !.report = [w_lines |-> w.lines, w_err |-> w.err,
                                        w_warn |-> w.warn,
                                        total |-> state.total_lines,
                                        last_line |-> state.last_line,
                                        missing |-> FALSE]]
    /\ UNCHANGED <<clock, log, logExists, stFile, tmpFile, ticks, sumNew,
                   appendOnly, dirtyCur, dirtyPrev, last, written>>
    /\ UNCHANGED <<runVars, saveVars>>

\* the other process: not loading, holding the file it opened, or done
ReaderIdle == [pc |-> "idle", handle |-> AbsentFile, seen |-> AbsentFile,
               reads |-> 0, at |-> "idle"]

\* a file that holds a prefix of a JSON text (an empty file included)
PartialFile == [AbsentFile EXCEPT !.kind = "partial"]

\* faulty variant: the JSON is written to the destination itself
TmpPathInPlace(path) == path

\* tmp = path.with_suffix(path.suffix + ".tmp")
TmpPath(path) == "tmp"

\* _atomic_write_json, line 53: write_text opens the sibling path, which
\* truncates it; the text is not there yet
PulseWriteTmp ==
    /\ tk.pc = "write_tmp"
    /\ stFile' = IF TmpPath("dest") = "dest" THEN PartialFile ELSE stFile
    /\ tmpFile' = IF TmpPath("dest") = "tmp" THEN PartialFile ELSE tmpFile
    /\ snapshots' = snapshots \cup {StoredFile(tk.state, tk.items)}
    /\ tk' = [tk EXCEPT !.pc = "fill_tmp"]
    /\ UNCHANGED <<clock, log, logExists, ticks, sumNew, appendOnly,
                   dirtyCur, dirtyPrev, last, written>>
    /\ UNCHANGED <<runVars, reader>>

\* _atomic_write_json, line 53: the whole JSON text is written and the file
\* closed
PulseFillTmp ==
    /\ tk.pc = "fill_tmp"
    /\ stFile' = IF TmpPath("dest") = "dest" THEN StoredFile(tk.state, tk.items)
                  ELSE stFile
    /\ tmpFile' = IF TmpPath("dest") = "tmp" THEN StoredFile(tk.state, tk.items)
                   ELSE tmpFile
    /\ tk' = [tk EXCEPT !.pc = "replace"]
    /\ UNCHANGED <<clock, log, logExists, ticks, sumNew, appendOnly,
                   dirtyCur, dirtyPrev, last, written>>
    /\ UNCHANGED <<runVars, saveVars>>

\* _atomic_write_json, line 54: tmp.replace(path), one rename
PulseReplace ==
    /\ tk.pc = "replace"
    /\ stFile' = IF TmpPath("dest") = "tmp" THEN tmpFile ELSE stFile
    /\ tmpFile' = IF TmpPath("dest") = "tmp" THEN AbsentFile ELSE tmpFile
    /\ tk' = [tk EXCEPT !.pc = "exists"]
    /\ UNCHANGED <<clock, log, logExists, ticks, sumNew, appendOnly,
                   dirtyCur, dirtyPrev, last, written>>
    /\ UNCHANGED <<runVars, saveVars>>

\* pulse_once, lines 383-393: the summary and its log-missing suffix
PulseExists ==
    /\ tk.pc = "exists"
    /\ tk' = [tk EXCEPT !.pc = "done", !.report.missing = ~logExists]
    /\ UNCHANGED <<clock, log, logExists, stFile, tmpFile, ticks, sumNew,
                   appendOnly, dirtyCur, dirtyPrev, last, written>>
    /\ UNCHANGED <<runVars, saveVars>>

\* cmd_pulse, lines 396-400
CmdPulse ==
    /\ run.pc = "off"
    /\ ticks < MaxTicks
    /\ \E w \in Windows : PulseBegin("cmd_pulse", w)
    /\ UNCHANGED <<runVars, saveVars>>

CmdPulseReturn ==
    /\ tk.pc = "done"
    /\ tk.caller = "cmd_pulse"
    /\ last' = [valid |-> TRUE, report |-> tk.report, now |-> tk.now,
                window |-> tk.window, pos |-> tk.state.pos]
    /\ tk' = TkIdle
    /\ UNCHANGED <<clock, log, logExists, stFile, tmpFile, ticks, sumNew,
                   appendOnly, dirtyCur, dirtyPrev, written>>
    /\ UNCHANGED <<runVars, saveVars>>

----------------------------------------------------------------------------
(* The environment of a pulse: the writer of the log, and the clock *)

\* The writer and the clock are scheduled where the call in progress can tell
\* the difference: between its size check, its open, its reads and its final
\* existence check. The steps in between touch neither the log nor the clock.
\* Once the last call of the behaviour has returned nothing observes them.
CallPending == ticks < MaxTicks \/ tk.pc \notin {"idle", "raised"}

WriterMayRun ==
    /\ run.pc = "off"
    /\ tk.pc \in {"idle", "raised", "open", "read", "exists"}
    /\ CallPending

LogAppend ==
    /\ WriterMayRun
    /\ logExists
    /\ written < MaxBytes
    /\ written' = written + 1
    /\ \E c \in Chars : log' = Append(log, c)
    /\ dirtyCur' = TRUE
    /\ UNCHANGED <<clock, logExists, stFile, tmpFile, tk, ticks, sumNew,
                   appendOnly, dirtyPrev, last>>
    /\ UNCHANGED <<runVars, saveVars>>

\* the file is cut in place to a shorter length (a rewrite cuts it to 0 first)
LogTruncate ==
    /\ WriterMayRun
    /\ logExists
    /\ \E k \in 0..(Len(log) - 1) : log' = SubSeq(log, 1, k)
    /\ dirtyCur' = TRUE
    /\ appendOnly' = FALSE
    /\ UNCHANGED <<clock, logExists, stFile, tmpFile, tk, ticks, sumNew,
                   dirtyPrev, last, written>>
    /\ UNCHANGED <<runVars, saveVars>>

LogRemove ==
    /\ WriterMayRun
    /\ logExists
    /\ logExists' = FALSE
    /\ log' = <<>>
    /\ tk' = IF tk.pc = "read" /\ ~tk.detached
             THEN [tk EXCEPT !.detached = TRUE, !.snap = log]
             ELSE tk
    /\ dirtyCur' = TRUE
    /\ appendOnly' = FALSE
    /\ UNCHANGED <<clock, stFile, tmpFile, ticks, sumNew, dirtyPrev, last, written>>
    /\ UNCHANGED <<runVars, saveVars>>

LogCreate ==
    /\ WriterMayRun
    /\ ~logExists
    /\ logExists' = TRUE
    /\ log' = <<>>
    /\ dirtyCur' = TRUE
    /\ UNCHANGED <<clock, stFile, tmpFile, tk, ticks, sumNew, appendOnly,
                   dirtyPrev, last, written>>
    /\ UNCHANGED <<runVars, saveVars>>

SecondPasses ==
    /\ run.pc = "off"
    /\ tk.pc \in {"idle", "raised"}
    /\ CallPending
    /\ clock < MaxSeconds * TicksPerSecond
    /\ clock' = clock + TicksPerSecond
    /\ UNCHANGED <<log, logExists, stFile, tmpFile, tk, ticks, sumNew,
                   appendOnly, dirtyCur, dirtyPrev, last, written>>
    /\ UNCHANGED <<runVars, saveVars>>

----------------------------------------------------------------------------
(* cmd_run: exit status, process table, ps and killpg *)

Pids == 1..MaxPid

\* --interval, in ticks: pulses between scans, and scans between pulses
Intervals == {1, ProcPollTicks}

\* Popen returncodes of the child: exit statuses, and -n for death by signal n
ChildOutcomes == {0, 3, 143, -15, -33}


NoPids == [set |-> FALSE, pids |-> {}]
SomePids(S) == [set |-> TRUE, pids |-> S]

NoSignal == [name |-> "", num |-> 0]

\* signal.Signals(sig_num).name for the numbers the platform names
SignalNames ==
    (1 :> "SIGHUP") @@ (2 :> "SIGINT") @@ (9 :> "SIGKILL") @@ (15 :> "SIGTERM")

\* _signal_name(sig_num)
SignalName(sig_num) ==
    IF sig_num \in DOMAIN SignalNames
    THEN [name |-> SignalNames[sig_num], num |-> 0]
    ELSE [name |-> "SIG", num |-> sig_num]

Line(kind) ==
    [kind |-> kind, pid |-> 0, status |-> "", signal |-> NoSignal, exit |-> 0]

ProcLine(kind, pid) == [Line(kind) EXCEPT !.pid = pid]

\* faulty variant: the signal number is returned without the offset
NormalizedNoOffset(exit_code) ==
    IF exit_code < 0 THEN -exit_code ELSE exit_code

\* normalized, in _emit_exit
Normalized(exit_code) ==
    IF exit_code < 0 THEN SignalBase + (-exit_code) ELSE exit_code

\* faulty variant: the sign of the code is not looked at
StatusLineUnsigned(exit_code) ==
    [Line("status") EXCEPT !.status = IF exit_code = 0 THEN "ok" ELSE "FAILED",
                           !.exit = Normalized(exit_code)]

\* the status line of _emit_exit
StatusLine(exit_code) ==
    IF exit_code < 0
    THEN [Line("status") EXCEPT !.status = "FAILED",
                                !.signal = SignalName(-exit_code),
                                !.exit = Normalized(exit_code)]
    ELSE [Line("status") EXCEPT !.status = IF exit_code = 0 THEN "ok" ELSE "FAILED",
                                !.exit = exit_code]

\* what _emit_exit prints
EmitExitLines(exit_code) ==
    <<StatusLine(exit_code)>>
      \o (IF Normalized(exit_code) # 0 THEN <<Line("extract")>> ELSE <<>>)

RECURSIVE Sorted(_)
\* sorted(S)
Sorted(S) ==
    IF S = {} THEN <<>>
    ELSE LET m == CHOOSE x \in S : \A y \in S : x <= y
         IN  <<m>> \o Sorted(S \ {m})

\* faulty variant: the exits are reported before the starts
DiffProcChangesExitsFirst(previous, current) ==
    LET started == Sorted(current \ previous)
        exited == Sorted(previous \ current)
    IN  [i \in 1..Len(exited) |-> ProcLine("proc-exit", exited[i])]
          \o [i \in 1..Len(started) |-> ProcLine("proc-start", started[i])]

\* _diff_proc_changes(previous, current)
DiffProcChanges(previous, current) ==
    LET started == Sorted(current \ previous)
        exited == Sorted(previous \ current)
    IN  [i \in 1..Len(started) |-> ProcLine("proc-start", started[i])]
          \o [i \in 1..Len(exited) |-> ProcLine("proc-exit", exited[i])]

\* the members of the child's process group the kernel still holds: running
\* ones, and the child itself until its status has been collected
GroupPids == {p \in Pids : procs[p] \in {"running", "zombie"}}

\* _pgid_alive(pgid): killpg(pgid, 0)
PgidAlive == GroupPids # {}

\* _ps_pgid_candidates(), in the order of the platform
PsCandidates == <<"--pgid", "-g">>

\* _list_pgid_pids(pgid): the pids listed (or None) and the new _PS_PGID_ARGS.
\* miss: the listing comes back empty although the group has members.
ListPgidPids(miss) ==
    LET listed == SomePids(IF miss THEN {} ELSE GroupPids)
        works == {i \in DOMAIN PsCandidates : PsCandidates[i] \in psOk}
    IN  IF psArgs = "UNAVAILABLE" THEN [pids |-> NoPids, args |-> psArgs]
        ELSE IF psArgs # "None"
        THEN IF psArgs \in psOk THEN [pids |-> listed, args |-> psArgs]
             ELSE [pids |-> NoPids, args |-> "UNAVAILABLE"]
        ELSE IF works # {}
        THEN [pids |-> listed,
              args |-> PsCandidates[CHOOSE i \in works : \A j \in works : i <= j]]
        ELSE [pids |-> NoPids, args |-> "UNAVAILABLE"]

\* a listing may miss the group only while the child is still starting up
MayMiss == {FALSE} \cup (IF procs[run.pid] = "running" THEN {TRUE} ELSE {})

\* proc.poll(): the status, collected from the kernel the first time
PollValue ==
    IF procRc.set THEN procRc
    ELSE IF procs[run.pid] = "zombie" THEN Some(outcome) ELSE None

PollEffect ==
    /\ procRc' = PollValue
    /\ procs' = IF ~procRc.set /\ procs[run.pid] = "zombie"
                THEN [procs EXCEPT ![run.pid] = "gone"] ELSE procs

----------------------------------------------------------------------------
(* _ProcTracker *)

\* faulty variant: single-pid tracking never notices the exit
ScanPidsNoExit(track_group_list, pgid_set, listed, pid, rc) ==
    IF track_group_list /\ pgid_set
    THEN IF listed.set /\ listed.pids = {} /\ ~rc.set THEN NoPids ELSE listed
    ELSE IF ~track_group_list
    THEN SomePids({pid})
    ELSE NoPids

\* faulty variant: an empty listing is trusted whatever rc is
ScanPidsTrusting(track_group_list, pgid_set, listed, pid, rc) ==
    IF track_group_list /\ pgid_set
    THEN listed
    ELSE IF ~track_group_list
    THEN SomePids(IF ~rc.set THEN {pid} ELSE {})
    ELSE NoPids

\* _ProcTracker.scan(proc, rc): the set it returns (or None)
ScanPids(track_group_list, pgid_set, listed, pid, rc) ==
    IF track_group_list /\ pgid_set
    THEN IF listed.set /\ listed.pids = {} /\ ~rc.set THEN NoPids ELSE listed
    ELSE IF ~track_group_list
    THEN SomePids(IF ~rc.set THEN {pid} ELSE {})
    ELSE NoPids

\* faulty variant: a scan that was skipped or discarded counts as an empty one
GroupAliveNoProbe(track_group_alive, track_group_list, current_pids, rc, probe) ==
    IF track_group_alive
    THEN current_pids.set /\ Cardinality(current_pids.pids) > 0
    ELSE ~rc.set

\* faulty variant: liveness of the child alone, as in a loop without group tracking
GroupAliveChildOnly(track_group_alive, track_group_list, current_pids, rc, probe) ==
    ~rc.set

\* faulty variant: without a fresh listing the group is taken to be alive
GroupAliveWithoutProbe(track_group_alive, track_group_list, current_pids, rc, probe) ==
    IF track_group_alive
    THEN IF track_group_list /\ current_pids.set
         THEN Cardinality(current_pids.pids) > 0
         ELSE TRUE
    ELSE ~rc.set

\* _ProcTracker.group_alive(current_pids, rc)
GroupAlive(track_group_alive, track_group_list, current_pids, rc, probe) ==
    IF track_group_alive
    THEN IF track_group_list /\ current_pids.set
         THEN Cardinality(current_pids.pids) > 0
         ELSE probe
    ELSE ~rc.set

\* faulty variant: no sweep
SweepsExitsNever(group_alive, current_pids, last_pids) == FALSE

\* _ProcTracker.ensure_exit_events: whether it sweeps last_pids
SweepsExits(group_alive, current_pids, last_pids) ==
    ~group_alive /\ ~current_pids.set /\ last_pids # {}

RunOff ==
    [pc |-> "off", pid |-> 1, track_group_alive |-> FALSE, interval |-> 0,
     window |-> 0, track_group_list |-> FALSE, last_pids |-> {},
     events |-> <<>>, rc |-> None, primary_rc |-> None, now |-> 0,
     current_pids |-> NoPids, group_alive |-> TRUE, last_emit |-> 0,
     next_pulse |-> 0, next_proc_scan |-> 0, wake_at |-> 0,
     listed |-> NoPids]

\* cmd_run, lines 404-442: the log is created empty, stale state is removed,
\* the two start-up lines are printed and the child is spawned
RunInit ==
    /\ clock = 0
    /\ log = <<>>
    /\ logExists = TRUE
    /\ stFile = AbsentFile
    /\ tmpFile = AbsentFile
    /\ tk = TkIdle
    /\ ticks = 0
    /\ sumNew = 0
    /\ appendOnly = TRUE
    /\ dirtyCur = FALSE
    /\ dirtyPrev = FALSE
    /\ last = NoLast
    /\ written = 0
    /\ \E pid \in Pids, tga \in BOOLEAN, iv \in Intervals, w \in Windows :
          /\ run = [RunOff EXCEPT !.pc = "seed", !.pid = pid,
                                  !.track_group_alive = tga,
                                  !.interval = iv, !.window = w]
          /\ procs = [p \in Pids |-> IF p = pid THEN "running" ELSE "none"]
    /\ outcome = 0
    /\ procRc = None
    /\ psOk \in {{}, {PsCandidates[Len(PsCandidates)]},
                 {PsCandidates[i] : i \in DOMAIN PsCandidates}}
    /\ psArgs = "None"
    /\ out = <<Line("log"), Line("cmd")>>
    /\ ret = None
    /\ outlived = {}
    /\ reader = ReaderIdle
    /\ snapshots = {stFile}

\* _ProcTracker.__init__ and _seed, then cmd_run lines 445-449
RunSeed ==
    /\ run.pc = "seed"
    /\ \E miss \in MayMiss :
         LET r == IF run.track_group_alive THEN ListPgidPids(miss)
                  ELSE [pids |-> NoPids, args |-> psArgs]
             polls == r.pids.set /\ r.pids.pids = {}
             cur == IF r.pids.set /\ ~(polls /\ ~PollValue.set)
                    THEN r.pids.pids ELSE {run.pid}
         IN  /\ psArgs' = r.args
             /\ IF polls THEN PollEffect ELSE UNCHANGED <<procRc, procs>>
             /\ run' = [run EXCEPT
                          !.pc = "poll",
                          !.track_group_list = r.pids.set,
                          !.last_pids = cur,
                          !.events = @ \o DiffProcChanges({}, cur),
                          !.last_emit = clock,
                          !.next_pulse = clock + run.interval,
                          !.next_proc_scan = clock]
    /\ UNCHANGED <<pulseVars, outcome, psOk, out, ret, outlived, saveVars>>

\* cmd_run, lines 451-454
RunPoll ==
    /\ run.pc = "poll"
    /\ PollEffect
    /\ run' = [run EXCEPT
                 !.pc = "scan",
                 !.rc = PollValue,
                 !.primary_rc = IF PollValue.set /\ ~@.set THEN PollValue ELSE @,
                 !.now = clock]
    /\ UNCHANGED <<pulseVars, outcome, psOk, psArgs, out, ret, outlived, saveVars>>

\* cmd_run, lines 456-459, with _ProcTracker.scan
RunScan ==
    /\ run.pc = "scan"
    /\ IF run.now >= run.next_proc_scan
       THEN \E miss \in MayMiss :
              LET lists == run.track_group_list /\ run.track_group_alive
                  r == IF lists THEN ListPgidPids(miss)
                       ELSE [pids |-> NoPids, args |-> psArgs]
                  cur == ScanPids(run.track_group_list, run.track_group_alive,
                                  r.pids, run.pid, run.rc)
              IN  /\ psArgs' = r.args
                  /\ run' = [run EXCEPT
                               !.pc = "alive",
                               !.listed = r.pids,
                               !.current_pids = cur,
                               !.events = IF cur.set
                                          THEN @ \o DiffProcChanges(run.last_pids, cur.pids)
                                          ELSE @,
                               !.last_pids = IF cur.set THEN cur.pids ELSE @,
                               !.next_proc_scan = run.now + ProcPollTicks]
       ELSE /\ run' = [run EXCEPT !.pc = "alive", !.current_pids = NoPids,
                                  !.listed = NoPids]
            /\ UNCHANGED psArgs
    /\ UNCHANGED <<pulseVars, procs, outcome, procRc, psOk, out, ret, outlived, saveVars>>

\* faulty variant: a group found not alive still waits for the pulse deadline
RunAliveWaitsForDeadline ==
    /\ run.pc = "alive"
    /\ LET alive == GroupAlive(run.track_group_alive, run.track_group_list,
                               run.current_pids, run.rc, PgidAlive)
           sweep == SweepsExits(alive, run.current_pids, run.last_pids)
           swept == [run EXCEPT
                       !.group_alive = alive,
                       !.events = IF sweep
                                  THEN @ \o DiffProcChanges(run.last_pids, {})
                                  ELSE @,
                       !.last_pids = IF sweep THEN {} ELSE @]
           sleep_for == Min(run.next_pulse, run.next_proc_scan) - run.now
       IN  run' = IF run.now < run.next_pulse
                  THEN IF sleep_for > 0
                       THEN [swept EXCEPT !.pc = "sleep",
                                          !.wake_at = clock + Min(sleep_for, SleepQuantum)]
                       ELSE [swept EXCEPT !.pc = "poll"]
                  ELSE [swept EXCEPT !.pc = "emit"]
    /\ UNCHANGED <<pulseVars, procs, outcome, procRc, psOk, psArgs, out, ret, outlived, saveVars>>

\* cmd_run, lines 461-468, with group_alive and ensure_exit_events
RunAlive ==
    /\ run.pc = "alive"
    /\ LET alive == GroupAlive(run.track_group_alive, run.track_group_list,
                               run.current_pids, run.rc, PgidAlive)
           sweep == SweepsExits(alive, run.current_pids, run.last_pids)
           swept == [run EXCEPT
                       !.group_alive = alive,
                       !.events = IF sweep
                                  THEN @ \o DiffProcChanges(run.last_pids, {})
                                  ELSE @,
                       !.last_pids = IF sweep THEN {} ELSE @]
           sleep_for == Min(run.next_pulse, run.next_proc_scan) - run.now
       IN  run' = IF run.now < run.next_pulse /\ alive
                  THEN IF sleep_for > 0
                       THEN [swept EXCEPT !.pc = "sleep",
                                          !.wake_at = clock + Min(sleep_for, SleepQuantum)]
                       ELSE [swept EXCEPT !.pc = "poll"]
                  ELSE [swept EXCEPT !.pc = "emit"]
    /\ UNCHANGED <<pulseVars, procs, outcome, procRc, psOk, psArgs, out, ret, outlived, saveVars>>

\* time.sleep(...) returns
RunWake ==
    /\ run.pc = "sleep"
    /\ clock >= run.wake_at
    /\ run' = [run EXCEPT !.pc = "poll"]
    /\ UNCHANGED <<pulseVars, procs, outcome, procRc, psOk, psArgs, out, ret, outlived, saveVars>>

\* faulty variant: pulse_once is entered with the queue left undrained
RunEmitUndrained ==
    /\ run.pc = "emit"
    /\ out' = out
    /\ run' = [run EXCEPT !.pc = "pulse"]
    /\ PulseBegin("cmd_run", run.window)
    /\ UNCHANGED <<procs, outcome, procRc, psOk, psArgs, ret, outlived, saveVars>>

\* cmd_run, lines 470-472: the queued events are printed, pulse_once is entered
RunEmit ==
    /\ run.pc = "emit"
    /\ out' = out \o run.events
    /\ run' = [run EXCEPT !.pc = "pulse", !.events = <<>>]
    /\ PulseBegin("cmd_run", run.window)
    /\ UNCHANGED <<procs, outcome, procRc, psOk, psArgs, ret, outlived, saveVars>>

\* the exit status cmd_run hands to _emit_exit
ExitCode(primary_rc, polled) ==
    IF primary_rc.set THEN primary_rc.val
    ELSE IF polled.set THEN polled.val ELSE 0

\* cmd_run, lines 472-478: the pulse line is printed; with the group gone,
\* _emit_exit prints the status and cmd_run returns
RunAfterPulse ==
    /\ run.pc = "pulse"
    /\ tk.pc = "done"
    /\ tk' = TkIdle
    /\ IF ~run.group_alive
       THEN /\ IF run.primary_rc.set THEN UNCHANGED <<procRc, procs>> ELSE PollEffect
            /\ LET code == ExitCode(run.primary_rc, PollValue)
               IN  /\ out' = (out \o <<Line("pulse")>>) \o EmitExitLines(code)
                   /\ ret' = Some(Normalized(code))
            /\ run' = [run EXCEPT !.pc = "returned", !.last_emit = run.now,
                                  !.next_pulse = run.now + run.interval]
       ELSE /\ out' = out \o <<Line("pulse")>>
            /\ run' = [run EXCEPT !.pc = "poll", !.last_emit = run.now,
                                  !.next_pulse = run.now + run.interval]
            /\ UNCHANGED <<procRc, procs, ret>>
    /\ UNCHANGED <<clock, log, logExists, stFile, tmpFile, ticks, sumNew,
                   appendOnly, dirtyCur, dirtyPrev, last, written,
                   outcome, psOk, psArgs, outlived, saveVars>>

----------------------------------------------------------------------------
(* The environment of a run: the child, its descendants, ps and the clock *)

\* Processes and ps change where the loop can tell: before it looks at them.
ProcsMayChange == run.pc \in {"seed", "poll", "scan", "alive"}

\* the child exits with a status, or is killed by a signal
PrimaryExits ==
    /\ ProcsMayChange
    /\ procs[run.pid] = "running"
    /\ \E o \in ChildOutcomes : outcome' = o
    /\ procs' = [procs EXCEPT ![run.pid] = "zombie"]
    /\ outlived' = {g \in Pids \ {run.pid} : procs[g] = "running"}
    /\ UNCHANGED <<pulseVars, procRc, psOk, psArgs, run, out, ret, saveVars>>

\* a running member of the group starts another process in the group
DescendantStarts ==
    /\ ProcsMayChange
    /\ \E p \in Pids : procs[p] = "running"
    /\ \E g \in Pids :
          /\ procs[g] = "none"
          /\ procs' = [procs EXCEPT ![g] = "running"]
    /\ UNCHANGED <<pulseVars, outcome, procRc, psOk, psArgs, run, out, ret, outlived, saveVars>>

\* a descendant exits and is collected by its parent or by init
DescendantExits ==
    /\ ProcsMayChange
    /\ \E g \in Pids \ {run.pid} :
          /\ procs[g] = "running"
          /\ procs' = [procs EXCEPT ![g] = "gone"]
    /\ UNCHANGED <<pulseVars, outcome, procRc, psOk, psArgs, run, out, ret, outlived, saveVars>>

\* ps stops working during the run, after a form of it has been cached
PsBreaks ==
    /\ ProcsMayChange
    /\ psArgs \in psOk
    /\ psOk' = {}
    /\ UNCHANGED <<pulseVars, procs, outcome, procRc, psArgs, run, out, ret, outlived, saveVars>>

TickPasses ==
    /\ run.pc \in {"poll", "sleep", "emit"}
    /\ clock < MaxRunTicks
    /\ clock' = clock + 1
    /\ UNCHANGED <<log, logExists, stFile, tmpFile, tk, ticks, sumNew,
                   appendOnly, dirtyCur, dirtyPrev, last, written>>
    /\ UNCHANGED <<runVars, saveVars>>

\* The child of this specification writes nothing to its log: what pulse_once
\* makes of log bytes is the subject of SpecPulse.
RunNext ==
    \/ RunSeed
    \/ RunPoll
    \/ RunScan
    \/ RunAlive
    \/ RunWake
    \/ RunEmit
    \/ PulseRecord
    \/ PulseWriteTmp
    \/ PulseFillTmp
    \/ PulseReplace
    \/ PulseExists
    \/ RunAfterPulse
    \/ PrimaryExits
    \/ DescendantStarts
    \/ DescendantExits
    \/ PsBreaks
    \/ TickPasses

SpecRun == RunInit /\ [][RunNext]_vars

\* one step of cmd_run itself: the thread is never suspended for good
LoopStep ==
    \/ RunSeed
    \/ RunPoll
    \/ RunScan
    \/ RunAlive
    \/ RunWake
    \/ RunEmit
    \/ PulseRecord
    \/ PulseWriteTmp
    \/ PulseFillTmp
    \/ PulseReplace
    \/ PulseExists
    \/ RunAfterPulse

\* The run with a thread that keeps being scheduled and a clock that keeps
\* advancing up to the horizon.
SpecRunFair ==
    /\ RunInit
    /\ [][RunNext]_vars
    /\ WF_vars(LoopStep)
    /\ WF_vars(TickPasses)

PulseNext ==
    \/ CmdPulse
    \/ PulseOpen
    \/ PulseReadChunk
    \/ PulseRecord
    \/ PulseWriteTmp
    \/ PulseFillTmp
    \/ PulseReplace
    \/ PulseExists
    \/ CmdPulseReturn
    \/ LogAppend
    \/ LogTruncate
    \/ LogRemove
    \/ LogCreate
    \/ SecondPasses

\* cmd_pulse: no child, no tracker; the log may or may not exist yet
PulseInit ==
    /\ clock = 0
    /\ log = <<>>
    /\ logExists \in BOOLEAN
    /\ stFile = AbsentFile
    /\ tmpFile = AbsentFile
    /\ tk = TkIdle
    /\ ticks = 0
    /\ sumNew = 0
    /\ appendOnly = TRUE
    /\ dirtyCur = FALSE
    /\ dirtyPrev = FALSE
    /\ last = NoLast
    /\ written = 0
    /\ procs = [p \in Pids |-> "none"]
    /\ outcome = 0
    /\ procRc = None
    /\ psOk = {}
    /\ psArgs = "None"
    /\ run = RunOff
    /\ out = <<>>
    /\ ret = None
    /\ outlived = {}
    /\ reader = ReaderIdle
    /\ snapshots = {stFile}

SpecPulse == PulseInit /\ [][PulseNext]_vars

----------------------------------------------------------------------------
(* pulse_once on a state file written by something else *)

\* what the state file may hold before the first call
InitialFiles ==
    {AbsentFile,
     [AbsentFile EXCEPT !.kind = "notjson"],
     [AbsentFile EXCEPT !.kind = "nonobject"]}
    \cup
    {[kind |-> "foreign", data |-> DefaultState(0),
      raw |-> [pos |-> p, total_lines |-> t, list |-> l, items |-> it]] :
        p \in {JMissing, JInt(-1), JInt(1), JStr},
        t \in {JMissing, JInt(1), JStr},
        l \in BOOLEAN,
        it \in BoundedSeq(ItemKinds, MaxItems)}

LoadInit ==
    /\ clock = 0
    /\ log \in {<<>>, <<"x", LF>>}
    /\ logExists \in BOOLEAN
    /\ logExists \/ log = <<>>
    /\ stFile \in InitialFiles
    /\ tmpFile = AbsentFile
    /\ tk = TkIdle
    /\ ticks = 0
    /\ sumNew = 0
    /\ appendOnly = TRUE
    /\ dirtyCur = FALSE
    /\ dirtyPrev = FALSE
    /\ last = NoLast
    /\ written = Len(log)
    /\ procs = [p \in Pids |-> "none"]
    /\ outcome = 0
    /\ procRc = None
    /\ psOk = {}
    /\ psArgs = "None"
    /\ run = RunOff
    /\ out = <<>>
    /\ ret = None
    /\ outlived = {}
    /\ reader = ReaderIdle
    /\ snapshots = {stFile}

\* nothing writes to the log here: the calls and the clock
LoadNext ==
    \/ CmdPulse
    \/ PulseOpen
    \/ PulseReadChunk
    \/ PulseRecord
    \/ PulseWriteTmp
    \/ PulseFillTmp
    \/ PulseReplace
    \/ PulseExists
    \/ CmdPulseReturn
    \/ SecondPasses

SpecLoad == LoadInit /\ [][LoadNext]_vars

----------------------------------------------------------------------------
(* Properties of the pulse state and the delta reads (SpecPulse) *)

PersistedTotal == IF stFile.kind = "json" THEN stFile.data.total_lines ELSE 0

PersistedPos == IF stFile.kind = "json" THEN stFile.data.pos ELSE 0

\* the size check of the call in progress found the file shorter than the
\* stored offset
SawTruncation == tk.stat_size >= 0 /\ tk.stat_size < tk.loaded.pos

\* the samples the window of a call covers, as indices into the stored list
InWindow(samples, now, window) ==
    {i \in DOMAIN samples : samples[i].t >= WindowCutoff(now, window)}

\* C5: from a fresh state and with the log only ever appended to, the total a
\* call reports is the number of complete lines one read from offset 0 counts
\* in the bytes [0, pos) of the log.
C5_TotalCountsCompleteLines ==
    (tk.pc = "done" /\ appendOnly) =>
        tk.report.total =
            ReadWhole(SubSeq(log, 1, tk.state.pos), 0).new_lines

\* C6: the persisted total_lines is the sum of the new_lines of every delta
\* read returned so far (the one being recorded is added when it is saved),
\* whatever pruning has removed from the samples.
C6_TotalIsRunningSum ==
    PersistedTotal
      + (IF tk.pc \in {"record", "write_tmp", "fill_tmp", "replace"}
         THEN tk.delta.new_lines ELSE 0)
      = sumNew

\* C6 witness: a saved state whose total counts lines of pruned samples.
C6_Witness ==
    /\ tk.pc = "done"
    /\ stFile.kind = "json"
    /\ Len(stFile.data.samples) < ticks
    /\ stFile.data.total_lines > SumField(stFile.data.samples, "lines")

\* C7: for a window W > 0, a call that starts from an empty state and reads N
\* new lines reports a windowed total of N; a call that reads nothing reports a
\* windowed total of 0 once every earlier burst is older than now - W.
C7_WindowedTotals ==
    (tk.pc = "done" /\ tk.window > 0) =>
        /\ tk.loaded.samples = <<>> => tk.report.w_lines = tk.delta.new_lines
        /\ ( /\ tk.delta.new_lines = 0
             /\ \A i \in DOMAIN tk.loaded.samples :
                   tk.loaded.samples[i].lines > 0 =>
                       tk.loaded.samples[i].t < tk.now - tk.window * TicksPerSecond )
           => tk.report.w_lines = 0

\* C7 witness: a burst still stored, just older than the window, reported as 0.
C7_Witness ==
    /\ tk.pc = "done"
    /\ tk.window > 0
    /\ tk.delta.new_lines = 0
    /\ tk.report.w_lines = 0
    /\ \E i \in DOMAIN tk.state.samples :
          /\ tk.state.samples[i].lines > 0
          /\ tk.state.samples[i].t < tk.now - tk.window * TicksPerSecond

\* C8: a call lowers the stored offset only when its size check finds the file
\* shorter than the stored offset; such a call reads from offset 0, stores the
\* size it found, and (the file not changing under it) counts every complete
\* line of the file.
C8_PosMonotonicUnlessTruncated ==
    tk.pc = "done" =>
        /\ PersistedPos = tk.state.pos
        /\ tk.state.pos < tk.loaded.pos => SawTruncation
        /\ SawTruncation =>
              /\ tk.start = 0
              /\ tk.state.pos = tk.stat_size
              /\ ~dirtyCur => tk.delta.new_lines = ReadWhole(log, 0).new_lines

\* C8 witness: a shrunk file whose lines were recounted from the start.
C8_Witness ==
    /\ tk.pc = "done"
    /\ SawTruncation
    /\ ~dirtyCur
    /\ tk.delta.new_lines >= 1
    /\ tk.state.pos < tk.loaded.pos

\* the log was left alone from the size check of the previous call on
LogUntouched == last.valid /\ ~dirtyPrev /\ ~dirtyCur

SameFigures(a, b) ==
    /\ a.w_lines = b.w_lines
    /\ a.w_err = b.w_err
    /\ a.w_warn = b.w_warn

C10_MissingLogIsNotAnError ==
    /\ tk.pc # "raised"
    /\ (tk.pc = "done" /\ tk.stat_size = -1) =>
          /\ tk.delta = ZeroDelta(tk.loaded.pos)
          /\ stFile = JsonFile(tk.state)
          /\ ~logExists => tk.report.missing

\* the call in progress has the delta of a read loop that ran to its end
ReadLoopDone ==
    /\ tk.pc \in {"record", "write_tmp", "fill_tmp", "replace", "exists", "done"}
    /\ tk.stat_size > tk.start

\* C14: with the log only appended to, a delta read processes exactly the
\* bytes from its start offset to the end offset it returns, so that the next
\* read, which starts at that offset, processes none of them again.
C14_NoByteReadTwice ==
    (ReadLoopDone /\ appendOnly) => tk.fpos = tk.delta.end_pos

----------------------------------------------------------------------------
(* Properties of the run loop (SpecRun) *)

Returned == run.pc = "returned"

Printed(kind) == {i \in DOMAIN out : out[i].kind = kind}

PrintedFor(kind, pid) == {i \in Printed(kind) : out[i].pid = pid}

\* C1: the loop finishing with primary exit status rc returns 0 and prints
\* "ok" for rc = 0, returns rc and prints "FAILED" for rc > 0, returns 128 + n
\* and prints "FAILED signal=<name of n>" for rc = -n (143 and SIGTERM for
\* -15); the extract line is printed exactly when the returned code is not 0.
C1_EmitExit ==
    (Returned /\ run.primary_rc.set) =>
        LET rc == run.primary_rc.val
            st == out[CHOOSE i \in Printed("status") : TRUE]
        IN  /\ Cardinality(Printed("status")) = 1
            /\ rc = 0 => ret.val = 0 /\ st.status = "ok" /\ st.signal = NoSignal
            /\ rc > 0 => ret.val = rc /\ st.status = "FAILED" /\ st.signal = NoSignal
            /\ rc < 0 => /\ ret.val = 128 - rc
                         /\ st.status = "FAILED"
                         /\ st.signal = SignalName(-rc)
                         /\ st.signal # NoSignal
            /\ rc = -15 => ret.val = 143 /\ st.signal.name = "SIGTERM"
            /\ st.exit = ret.val
            /\ Printed("extract") # {} <=> ret.val # 0

\* C1 witness: a child killed by signal 15 reported as 143.
C1_Witness ==
    /\ Returned
    /\ run.primary_rc = Some(-15)
    /\ ret = Some(143)
    /\ Printed("extract") # {}

\* C2 as stated: with group tracking, cmd_run does not return while a member
\* of the group is alive, and every descendant that outlived the child has its
\* proc-exit line printed before the status line.
C2_WaitsAndReportsEveryExit ==
    (Returned /\ run.track_group_alive /\ run.track_group_list /\ psArgs \in psOk) =>
        /\ GroupPids = {}
        /\ \A g \in outlived :
              \E i \in PrintedFor("proc-exit", g) :
                 \A j \in Printed("status") : i < j

\* C2 amended: the proc-exit line is owed to the descendants a scan has listed,
\* those whose proc-start line was printed.
C2_WaitsAndReportsListedExits ==
    /\ (Printed("status") # {} /\ run.track_group_alive) => GroupPids = {}
    /\ (Returned /\ run.track_group_alive) =>
          /\ GroupPids = {}
          /\ \A g \in outlived :
                \A s \in PrintedFor("proc-start", g) :
                   \E i \in PrintedFor("proc-exit", g) :
                      /\ s < i
                      /\ \A j \in Printed("status") : i < j

\* C2 witness: a listed descendant outlived the child and its exit was printed.
C2_Witness ==
    /\ Returned
    /\ run.track_group_alive
    /\ run.track_group_list
    /\ psArgs \in psOk
    /\ \E g \in outlived :
          /\ PrintedFor("proc-start", g) # {}
          /\ PrintedFor("proc-exit", g) # {}

\* C3 as stated: the returned value is 0 only for exit status 0, in 1..127
\* only for that exit status, and 128 or more only for death by signal.
C3_ReturnClassifiesOutcome ==
    Returned =>
        /\ ret.val = 0 => outcome = 0
        /\ ret.val \in 1..127 => outcome = ret.val
        /\ ret.val >= 128 => outcome = -(ret.val - 128)

\* C3 amended: a returned value v of 128 or more comes from death by signal
\* v - 128 or from the child's own exit status v.
C3_ReturnClassifiesOutcomeUpTo127 ==
    Returned =>
        /\ ret.set
        /\ ret.val = 0 => outcome = 0
        /\ ret.val \in 1..127 => outcome = ret.val
        /\ ret.val >= 128 => outcome = -(ret.val - 128) \/ outcome = ret.val

\* C3 witness: the child's own exit status 143 is returned as 143.
C3_Witness ==
    /\ Returned
    /\ outcome = 143
    /\ ret = Some(143)

\* C4: with enumeration unavailable at start-up (single-pid tracking), a run
\* prints a proc-start and a proc-exit line before the status line and returns
\* the child's normalized exit code.
C4_FallbackWithoutPs ==
    (Returned /\ ~run.track_group_list) =>
        /\ \E i \in Printed("proc-start"), k \in Printed("proc-exit") :
              \A j \in Printed("status") : i < j /\ k < j
        /\ ret.val = IF outcome < 0 THEN 128 - outcome ELSE outcome

\* C4 witness: ps failed at start-up on a platform with process groups.
C4_Witness ==
    /\ Returned
    /\ run.track_group_alive
    /\ ~run.track_group_list
    /\ psArgs = "UNAVAILABLE"
    /\ outcome # 0
    /\ PrintedFor("proc-exit", run.pid) # {}

----------------------------------------------------------------------------
(* _read_delta on a log that is complete before it is read *)

\* --window is any integer (type=int, no range check)
SignedWindows == (0 - MaxWindow - 1)..MaxWindow

\* cmd_pulse, lines 396-400, with any --window
CmdPulseSigned ==
    /\ run.pc = "off"
    /\ ticks < MaxTicks
    /\ \E w \in SignedWindows : PulseBegin("cmd_pulse", w)
    /\ UNCHANGED <<runVars, saveVars>>

\* a log that nobody writes to, and no state file yet
WindowInit ==
    /\ clock = 0
    /\ log \in {<<>>, <<"x", LF>>}
    /\ logExists = TRUE
    /\ stFile = AbsentFile
    /\ tmpFile = AbsentFile
    /\ tk = TkIdle
    /\ ticks = 0
    /\ sumNew = 0
    /\ appendOnly = TRUE
    /\ dirtyCur = FALSE
    /\ dirtyPrev = FALSE
    /\ last = NoLast
    /\ written = Len(log)
    /\ procs = [p \in Pids |-> "none"]
    /\ outcome = 0
    /\ procRc = None
    /\ psOk = {}
    /\ psArgs = "None"
    /\ run = RunOff
    /\ out = <<>>
    /\ ret = None
    /\ outlived = {}
    /\ reader = ReaderIdle
    /\ snapshots = {stFile}

\* the calls, each with a window of its own, and the clock
WindowNext ==
    \/ CmdPulseSigned
    \/ PulseOpen
    \/ PulseReadChunk
    \/ PulseRecord
    \/ PulseWriteTmp
    \/ PulseFillTmp
    \/ PulseReplace
    \/ PulseExists
    \/ CmdPulseReturn
    \/ SecondPasses

SpecWindow == WindowInit /\ [][WindowNext]_vars

DeltaInit ==
    /\ clock = 0
    /\ log \in BoundedSeq(Chars, MaxLine)
    /\ logExists = TRUE
    /\ stFile = AbsentFile
    /\ tmpFile = AbsentFile
    /\ tk = TkIdle
    /\ ticks = 0
    /\ sumNew = 0
    /\ appendOnly = TRUE
    /\ dirtyCur = FALSE
    /\ dirtyPrev = FALSE
    /\ last = NoLast
    /\ written = Len(log)
    /\ procs = [p \in Pids |-> "none"]
    /\ outcome = 0
    /\ procRc = None
    /\ psOk = {}
    /\ psArgs = "None"
    /\ run = RunOff
    /\ out = <<>>
    /\ ret = None
    /\ outlived = {}
    /\ reader = ReaderIdle
    /\ snapshots = {stFile}

DeltaNext ==
    \/ CmdPulse
    \/ PulseOpen
    \/ PulseReadChunk
    \/ PulseRecord
    \/ PulseWriteTmp
    \/ PulseFillTmp
    \/ PulseReplace
    \/ PulseExists
    \/ CmdPulseReturn

SpecDelta == DeltaInit /\ [][DeltaNext]_vars

\* the writer appends a byte while no call is in progress
LogGrowsIdle ==
    /\ run.pc = "off"
    /\ tk.pc = "idle"
    /\ ticks >= 1
    /\ ticks < MaxTicks
    /\ logExists
    /\ Len(log) < MaxLine
    /\ written' = written + 1
    /\ \E c \in Chars : log' = Append(log, c)
    /\ dirtyCur' = TRUE
    /\ UNCHANGED <<clock, logExists, stFile, tmpFile, tk, ticks, sumNew,
                   appendOnly, dirtyPrev, last>>
    /\ UNCHANGED <<runVars, saveVars>>

\* a log that grows between the calls only, read by consecutive calls within
\* one second
SplitNext ==
    \/ CmdPulse
    \/ PulseOpen
    \/ PulseReadChunk
    \/ PulseRecord
    \/ PulseWriteTmp
    \/ PulseFillTmp
    \/ PulseReplace
    \/ PulseExists
    \/ CmdPulseReturn
    \/ LogGrowsIdle

SpecSplit == DeltaInit /\ [][SplitNext]_vars

----------------------------------------------------------------------------
(* _atomic_write_json against another process that loads the state file *)

\* path.read_text() in _load_json, the open: the path is resolved to the file
\* it names at this moment. A rename gives the path another file and leaves
\* the one that was opened as it is.
ReaderOpen ==
    /\ reader.pc \in {"idle", "done"}
    /\ reader.reads < MaxReads
    /\ reader' = [reader EXCEPT !.pc = "open", !.handle = stFile,
                                !.reads = @ + 1, !.at = tk.pc]
    /\ UNCHANGED <<pulseVars, runVars, snapshots>>

\* path.read_text() in _load_json, the read of the opened file
ReaderRead ==
    /\ reader.pc = "open"
    /\ reader' = [reader EXCEPT !.pc = "done", !.seen = reader.handle]
    /\ UNCHANGED <<pulseVars, runVars, snapshots>>

SaveInit ==
    /\ clock = 0
    /\ log \in {<<>>, <<"x", LF>>}
    /\ logExists = TRUE
    /\ stFile = AbsentFile
    /\ tmpFile = AbsentFile
    /\ tk = TkIdle
    /\ ticks = 0
    /\ sumNew = 0
    /\ appendOnly = TRUE
    /\ dirtyCur = FALSE
    /\ dirtyPrev = FALSE
    /\ last = NoLast
    /\ written = Len(log)
    /\ procs = [p \in Pids |-> "none"]
    /\ outcome = 0
    /\ procRc = None
    /\ psOk = {}
    /\ psArgs = "None"
    /\ run = RunOff
    /\ out = <<>>
    /\ ret = None
    /\ outlived = {}
    /\ reader = ReaderIdle
    /\ snapshots = {stFile}

SaveNext ==
    \/ CmdPulse
    \/ PulseOpen
    \/ PulseReadChunk
    \/ PulseRecord
    \/ PulseWriteTmp
    \/ PulseFillTmp
    \/ PulseReplace
    \/ PulseExists
    \/ CmdPulseReturn
    \/ SecondPasses
    \/ ReaderOpen
    \/ ReaderRead

SpecSave == SaveInit /\ [][SaveNext]_vars

----------------------------------------------------------------------------
(* Properties of the save (SpecSave) *)

\* C13: the destination holds, and a load concurrent with a save returns, a
\* complete snapshot (the file as it was before the first save or a state
\* that was saved), never a partially written one.
C13_ReaderSeesWholeSnapshot ==
    /\ stFile \in snapshots
    /\ stFile.kind # "partial"
    /\ reader.pc = "open" => reader.handle \in snapshots
    /\ reader.pc = "done" =>
          /\ reader.seen \in snapshots
          /\ reader.seen.kind # "partial"

\* C13 witness: a load that began while the sibling file was half written
\* returned the snapshot saved before.
C13_Witness ==
    /\ reader.pc = "done"
    /\ reader.at = "fill_tmp"
    /\ reader.seen.kind = "json"
    /\ tk.pc = "replace"
    /\ reader.seen # tmpFile

----------------------------------------------------------------------------
(* Properties of the line classification (SpecDelta) *)

\* the call in progress has its delta, read from offset 0
DeltaFromStart ==
    tk.pc \in {"record", "write_tmp", "fill_tmp", "replace", "exists", "done"}
      /\ tk.start = 0

\* the terminated lines of the log, in order
TerminatedLines ==
    LET parts == SplitLF(NormalizeNewlines(log))
    IN  SubSeq(parts, 1, Len(parts) - 1)

HasToken(line, c) == c \in {line[i] : i \in DOMAIN line}

\* C12: the error counter of a delta is the number of counted lines holding
\* an error token and the warning counter the number holding a warning
\* token, a line holding both being in both numbers and an empty line in
\* neither.
C12_CategoriesIndependent ==
    DeltaFromStart =>
        LET lines == TerminatedLines
            errs == {i \in DOMAIN lines : HasToken(lines[i], "E")}
            warns == {i \in DOMAIN lines : HasToken(lines[i], "W")}
            empties == {i \in DOMAIN lines : lines[i] = <<>>}
        IN  /\ tk.delta.new_lines = Len(lines)
            /\ tk.delta.err_lines = Cardinality(errs)
            /\ tk.delta.warn_lines = Cardinality(warns)
            /\ empties \cap (errs \cup warns) = {}
            /\ tk.delta.err_lines + tk.delta.warn_lines
                  = Cardinality(errs \cup warns) + Cardinality(errs \cap warns)

\* C12 witness: an empty line and a line with both tokens, counted as two
\* lines, one error and one warning.
C12_Witness ==
    /\ DeltaFromStart
    /\ log = <<LF, "E", "W", LF>>
    /\ tk.delta.new_lines = 2
    /\ tk.delta.err_lines = 1
    /\ tk.delta.warn_lines = 1

----------------------------------------------------------------------------
(* Properties of loading the state (SpecLoad) *)

\* C11: whatever the state file holds, a call never raises, and a file that
\* is absent, not JSON or not an object is loaded as the defaults.
C11_MalformedStateNeverRaises ==
    /\ tk.pc # "raised"
    /\ (tk.pc = "done" /\ tk.file_kind \in {"absent", "notjson", "nonobject"}) =>
          /\ tk.loaded = DefaultState(tk.now)
          /\ tk.raw.items = <<>>

\* C15: the status line is printed and cmd_run returns only after poll has
\* handed over the child's exit status and the tracker has found the group
\* not alive (with killpg available: no member of the group is left); no
\* code, the fallback 0 included, is returned while the child is running.
C15_ReturnsOnlyAfterExitObserved ==
    /\ ret.set => Returned
    /\ (Returned \/ Printed("status") # {}) =>
          /\ run.primary_rc.set
          /\ procRc.set
          /\ run.primary_rc.val = outcome
          /\ ~run.group_alive
          /\ procs[run.pid] = "gone"
          /\ run.track_group_alive => GroupPids = {}
          /\ ret.val = 0 => outcome = 0

\* C15 witness: a return of 0 after the child and a descendant that outlived
\* it were both gone.
C15_Witness ==
    /\ Returned
    /\ ret = Some(0)
    /\ outcome = 0
    /\ run.track_group_alive
    /\ outlived # {}
    /\ run.primary_rc = Some(0)

\* the loop has evaluated group_alive for the status poll() last returned
LivenessEvaluated == run.pc \in {"sleep", "emit", "pulse", "returned"}

\* C16: with only the primary pid tracked (the enumeration failed when the
\* tracker was seeded), group_alive is true exactly while the exit of the
\* primary child has not been observed.
C16_SingleModeLivenessIsPrimary ==
    (LivenessEvaluated /\ ~run.track_group_list) =>
        (run.group_alive <=> ~run.rc.set)

\* C17: when cmd_run returns, every proc-start line printed for a pid is
\* followed by a proc-exit line for that pid (as many exits as starts), the
\* retained snapshot last_pids is empty and no event is left in the queue,
\* in every tracking mode and whether or not the last scan gave a set.
C17_EventsBalancedAtReturn ==
    Returned =>
        /\ run.last_pids = {}
        /\ run.events = <<>>
        /\ \A pid \in Pids :
              /\ Cardinality(PrintedFor("proc-start", pid))
                    = Cardinality(PrintedFor("proc-exit", pid))
              /\ \A i \in PrintedFor("proc-start", pid) :
                    \E j \in PrintedFor("proc-exit", pid) : i < j

\* C17 witness: a return after ps had stopped working, so that the last scan
\* gave no set, with the exits of the child and of a descendant printed.
C17_Witness ==
    /\ Returned
    /\ run.track_group_list
    /\ ~run.current_pids.set
    /\ psArgs \notin psOk
    /\ \A pid \in Pids : PrintedFor("proc-exit", pid) # {}

\* the enumeration of the scan just made came back empty with rc still None
EmptyListingBeforeExit ==
    /\ run.pc = "alive"
    /\ run.listed.set
    /\ run.listed.pids = {}
    /\ ~run.rc.set

\* C18: a scan whose enumeration is empty while rc is None returns None and
\* leaves last_pids and the event queue as they were; no proc-exit event is
\* queued or printed for the child while it is running.
C18_EmptyListingDiscarded ==
    /\ [][(run.pc = "scan" /\ EmptyListingBeforeExit') =>
            /\ ~run'.current_pids.set
            /\ run'.last_pids = run.last_pids
            /\ run'.events = run.events]_vars
    /\ [](procs[run.pid] = "running" =>
            /\ PrintedFor("proc-exit", run.pid) = {}
            /\ \A i \in DOMAIN run.events :
                  ~(run.events[i].kind = "proc-exit" /\ run.events[i].pid = run.pid))

\* C18 witness: an empty listing was just discarded while the child runs
\* and the snapshot still holds it.
C18_Witness ==
    /\ EmptyListingBeforeExit
    /\ ~run.current_pids.set
    /\ run.pid \in run.last_pids
    /\ procs[run.pid] = "running"
    /\ run.track_group_list

\* q is p followed by the events of one diff of snapshot P against set C
AppendsDiff(p, q, P, C) ==
    LET n == Len(q) - Len(p)
        ns == Cardinality(C \ P)
        new == SubSeq(q, Len(p) + 1, Len(q))
    IN  /\ n = ns + Cardinality(P \ C)
        /\ SubSeq(q, 1, Len(p)) = p
        /\ {new[i].pid : i \in 1..ns} = C \ P
        /\ {new[i].pid : i \in (ns + 1)..n} = P \ C
        /\ \A i \in 1..n :
              new[i].kind = IF i <= ns THEN "proc-start" ELSE "proc-exit"
        /\ \A i, j \in 1..n :
              (i < j /\ new[i].kind = new[j].kind) => new[i].pid < new[j].pid

\* C19: a scan that returns a set C, the snapshot being P, appends to the
\* queue one proc-start for each pid of C \ P in ascending order, then one
\* proc-exit for each pid of P \ C in ascending order, nothing else, and makes
\* C the snapshot; the queue keeps its events, in order, until the drain,
\* which hands all of them to the output once and leaves the queue empty.
C19_ScanQueuesDiffInOrder ==
    /\ [][(run.pc = "scan" /\ run'.pc = "alive" /\ run'.current_pids.set) =>
            /\ run'.last_pids = run'.current_pids.pids
            /\ AppendsDiff(run.events, run'.events, run.last_pids,
                           run'.current_pids.pids)]_vars
    /\ [][~(run.pc = "emit" /\ run'.pc = "pulse") =>
            /\ Len(run'.events) >= Len(run.events)
            /\ SubSeq(run'.events, 1, Len(run.events)) = run.events]_vars
    /\ [][(run.pc = "emit" /\ run'.pc = "pulse") =>
            /\ out' = out \o run.events
            /\ run'.events = <<>>]_vars

\* C19 witness: the first scan found the child gone and a descendant with a
\* higher pid started: its start is queued before the exit of the child.
C19_Witness ==
    /\ run.pc = "alive"
    /\ run.current_pids.set
    /\ run.now = 0
    /\ \E g \in Pids :
          /\ g > run.pid
          /\ run.last_pids = {g}
          /\ run.events = <<ProcLine("proc-start", run.pid),
                            ProcLine("proc-start", g),
                            ProcLine("proc-exit", run.pid)>>

\* the process events of a sequence of lines, in their order
ProcEvents(lines) ==
    SelectSeq(lines, LAMBDA e : e.kind \in {"proc-start", "proc-exit"})

\* the process events printed so far followed by those still queued
EventHistory == ProcEvents(out) \o run.events

\* the number of pulse lines in a sequence of lines
PulseLines(lines) == Len(SelectSeq(lines, LAMBDA e : e.kind = "pulse"))

\* C20: the run loop enters an emission only with the pulse deadline due or
\* the group not alive; the emission prints the whole queue, in order, and
\* then the pulse line, so that no event is queued when a pulse line is
\* printed; printing neither loses, repeats nor reorders an event: the events
\* printed followed by the events queued only ever grow at the end.
C20_EventsPrintedBeforePulseLine ==
    /\ [][(run.pc = "emit" /\ run'.pc = "pulse") =>
            /\ run.now >= run.next_pulse \/ ~run.group_alive
            /\ out' = out \o run.events
            /\ EventHistory' = EventHistory]_vars
    /\ [][PulseLines(out') > PulseLines(out) =>
            /\ run.pc = "pulse"
            /\ run.events = <<>>
            /\ run'.events = <<>>
            /\ PulseLines(out') = PulseLines(out) + 1
            /\ ProcEvents(out') = ProcEvents(out)
            /\ SubSeq(out', 1, Len(out) + 1) = out \o <<Line("pulse")>>]_vars
    /\ [][/\ Len(EventHistory') >= Len(EventHistory)
          /\ SubSeq(EventHistory', 1, Len(EventHistory)) = EventHistory
          /\ Len(out') >= Len(out)
          /\ SubSeq(out', 1, Len(out)) = out]_vars

\* C20 witness: with the group still alive, a pulse line has been printed on
\* its deadline, after the start of a descendant that the tracker had queued.
C20_Witness ==
    /\ run.pc = "poll"
    /\ run.group_alive
    /\ run.events = <<>>
    /\ \E i, j \in DOMAIN out :
          /\ i < j
          /\ out[i].kind = "proc-start"
          /\ out[i].pid # run.pid
          /\ out[j].kind = "pulse"
          /\ j = Len(out)

\* C21: the iteration that finds the group not alive goes to the emission
\* whether or not the pulse deadline is reached; from there the loop drains
\* the queue once, prints one pulse line and then the terminal status line,
\* and returns: once the group is found not alive no further iteration
\* starts, and after the return nothing more is printed.
C21_FinalEmissionThenReturn ==
    /\ [][(run.pc = "alive" /\ ~run'.group_alive) => run'.pc = "emit"]_vars
    /\ [](~run.group_alive => run.pc \in {"emit", "pulse", "returned"})
    /\ [][(~run.group_alive /\ run.pc = "emit" /\ run'.pc # "emit") =>
            /\ run'.pc = "pulse"
            /\ out' = out \o run.events
            /\ run'.events = <<>>]_vars
    /\ [][(~run.group_alive /\ run.pc = "pulse" /\ run'.pc # "pulse") =>
            /\ run'.pc = "returned"
            /\ Len(out') \in {Len(out) + 2, Len(out) + 3}
            /\ SubSeq(out', 1, Len(out)) = out
            /\ out'[Len(out) + 1].kind = "pulse"
            /\ out'[Len(out) + 2].kind = "status"
            /\ Len(out') = Len(out) + 3 => out'[Len(out')].kind = "extract"]_vars
    /\ [][Returned => (out' = out /\ run' = run)]_vars
    /\ [](Returned =>
            /\ Cardinality(Printed("status")) = 1
            /\ \A i \in Printed("status") :
                  \A j \in DOMAIN out :
                     j > i => out[j].kind \notin {"pulse", "proc-start", "proc-exit"})

\* C21 witness: the run returned from an iteration whose clock reading was
\* before the first pulse deadline: its only pulse line is the final one,
\* printed after the exit of the child and before the status line.
C21_Witness ==
    /\ Returned
    /\ run.now = 0
    /\ run.interval > 0
    /\ PulseLines(out) = 1
    /\ \E i \in PrintedFor("proc-exit", run.pid) :
          /\ out[i + 1].kind = "pulse"
          /\ out[i + 2].kind = "status"

\* no member of the group is running: each has exited or was never started
NoneRunning == \A p \in Pids : procs[p] # "running"

\* the clock of the model can still reach the end of the sleep in progress
\* and of the one sleep the loop may begin before it collects the child
HorizonAllowsWake ==
    /\ run.pc = "sleep" => run.wake_at <= MaxRunTicks
    /\ (procs[run.pid] = "zombie" /\ run.pc \in {"scan", "alive"}) =>
          clock + SleepQuantum <= MaxRunTicks

\* C22: once the child and every member of its group have exited, the run
\* loop, scheduled fairly, prints the terminal status line and returns, in
\* every tracking mode (for every exit that leaves the clock of the model
\* room for the bounded sleeps of the loop).
C22_ReturnsAfterGroupExit ==
    (NoneRunning /\ HorizonAllowsWake)
        ~> (Returned /\ ret.set /\ Printed("status") # {})

\* C22 witness: enumeration worked at start-up and failed during the run, a
\* descendant outlived the child, all of them have exited, and the run has
\* returned.
C22_Witness ==
    /\ Returned
    /\ NoneRunning
    /\ run.track_group_alive
    /\ run.track_group_list
    /\ psArgs = "UNAVAILABLE"
    /\ outlived # {}
    /\ Printed("status") # {}

\* the samples of the state file as the call in progress left it
PersistedSamples == IF stFile.kind = "json" THEN stFile.data.samples ELSE <<>>

\* every persisted sample is at most window + 1 s older than the call
KeptAreRecent ==
    \A i \in DOMAIN PersistedSamples :
        PersistedSamples[i].t >= tk.now - tk.window * TicksPerSecond - TicksPerSecond

\* the last persisted sample is the one of the call, and the ones before it
\* are the most recent of those the call loaded, in their order
OwnSampleKeptLast ==
    LET n == Len(PersistedSamples)
        old == tk.loaded.samples
    IN  /\ n >= 1
        /\ PersistedSamples[n] = [t |-> tk.now, lines |-> tk.delta.new_lines,
                                  err |-> tk.delta.err_lines,
                                  warn |-> tk.delta.warn_lines]
        /\ n - 1 <= Len(old)
        /\ SubSeq(PersistedSamples, 1, n - 1) = SubSeq(old, Len(old) - n + 2, Len(old))

\* C23 as stated: after a call at time now with any window, every persisted
\* sample has t >= now - window - 1 s and the sample of the call is persisted,
\* after the older ones.
C23_KeptSamplesRecentOwnLast ==
    tk.pc = "done" => (KeptAreRecent /\ OwnSampleKeptLast)

\* C23 amended: after a call at time now with window W, every persisted
\* sample has t >= now - W - 1 s; and if W >= -1 the sample of the call is
\* persisted, after the older ones that were kept.
C23_KeptSamplesRecentOwnLastFromMinusOne ==
    tk.pc = "done" =>
        /\ KeptAreRecent
        /\ tk.window >= -1 => OwnSampleKeptLast

\* C23 witness: a call with a window of 0 s, one second after the previous
\* call, persisted both samples: the older one on the edge of the cutoff.
C23_Witness ==
    /\ tk.pc = "done"
    /\ tk.window = 0
    /\ Len(PersistedSamples) = 2
    /\ PersistedSamples[1].t = tk.now - TicksPerSecond
    /\ PersistedSamples[2].t = tk.now

\* the second of two calls has returned its line: the first read ended at the
\* offset the second started from, and the log did not change during either
TwoReadsDone ==
    /\ tk.pc = "done"
    /\ ticks = 2
    /\ Len(tk.state.samples) = 2
    /\ tk.start = tk.loaded.pos
    /\ tk.state.pos = Len(log)

\* C24: the error counts of two consecutive reads, the first ending at the
\* offset where the second starts, add up to the error count of one read of
\* the whole content, and so do the warning counts.
C24_SplitInvariantClassification ==
    TwoReadsDone =>
        /\ SumField(tk.state.samples, "err") = ReadWhole(log, 0).err_lines
        /\ SumField(tk.state.samples, "warn") = ReadWhole(log, 0).warn_lines

====
